---- MODULE Spec2Model ----
(***************************************************************************)
(* Model of src/bot.py: a Telegram calorie bot.                            *)
(*                                                                         *)
(* A message text is a sequence of one-character strings ("nbsp" stands    *)
(* for U+00A0).  Numbers are fixed point: grams, kcal100 and the parsed    *)
(* value of a message are in tenths; the kcal of an entry is in 1/10000,   *)
(* so that grams * kcal100 / 100 is exact.  A calendar date is a triple    *)
(* <<year, month, day>>, the content of its ISO string.  Every user talks  *)
(* to the bot in a private chat, so a conversation key is the user id.     *)
(***************************************************************************)
EXTENDS Integers, Sequences, FiniteSets, TLC

\* ----------------------------------------------------------------------
\* Bounds of the model
\* ----------------------------------------------------------------------
MaxMsgs == 4
MaxEntries == 5
MaxSoloMsgs == 7
MaxQuantity == 50
MaxDay == 1

Users == {1, 2}

\* ----------------------------------------------------------------------
\* SETTINGS (src/bot.py 19-43)
\* ----------------------------------------------------------------------
END == -1
G_NAME == 0
G_GRAMS == 1
G_KCAL100 == 2
K_NAME == 3
K_KCAL == 4
D_DATE == 5

BTN_ADD_GRAMS == <<"A","d","d"," ","(","g","r","a","m","s",")">>
BTN_ADD_KCAL == <<"A","d","d"," ","(","k","c","a","l",")">>
BTN_TODAY_LIST == <<"T","o","d","a","y"," ","l","i","s","t">>
BTN_TOTAL == <<"T","o","t","a","l">>
BTN_RESET == <<"R","e","s","e","t">>
BTN_CANCEL == <<"C","a","n","c","e","l">>
BTN_YESTERDAY == <<"Y","e","s","t","e","r","d","a","y">>
BTN_WEEK == <<"L","a","s","t"," ","7"," ","d","a","y","s">>
BTN_PICK_DATE == <<"C","h","o","o","s","e"," ","d","a","t","e">>

BUTTONS == {BTN_ADD_GRAMS, BTN_ADD_KCAL, BTN_TODAY_LIST, BTN_TOTAL, BTN_RESET,
            BTN_CANCEL, BTN_YESTERDAY, BTN_WEEK, BTN_PICK_DATE}

\* ----------------------------------------------------------------------
\* Text helpers
\* ----------------------------------------------------------------------
Digits == {"0","1","2","3","4","5","6","7","8","9"}

DigitVal(c) ==
    CASE c = "0" -> 0 [] c = "1" -> 1 [] c = "2" -> 2 [] c = "3" -> 3
      [] c = "4" -> 4 [] c = "5" -> 5 [] c = "6" -> 6 [] c = "7" -> 7
      [] c = "8" -> 8 [] c = "9" -> 9

\* characters str.strip() removes
Whitespace == {" ", "nbsp", "\n"}

RECURSIVE LStrip(_)
LStrip(t) ==
    IF t # << >> /\ Head(t) \in Whitespace THEN LStrip(Tail(t)) ELSE t

RECURSIVE RStrip(_)
RStrip(t) ==
    IF t # << >> /\ t[Len(t)] \in Whitespace
    THEN RStrip(SubSeq(t, 1, Len(t) - 1)) ELSE t

strip(t) == RStrip(LStrip(t))

\* text.replace("\u00A0", " ")
ReplaceNbsp(t) == [i \in 1..Len(t) |-> IF t[i] = "nbsp" THEN " " ELSE t[i]]

\* index of the last character of the run of digits that starts at i
RECURSIVE DigitsEnd(_, _)
DigitsEnd(t, i) ==
    IF i < Len(t) /\ t[i + 1] \in Digits THEN DigitsEnd(t, i + 1) ELSE i

\* value of the digits t[i..j] read as a decimal integer
RECURSIVE DecimalOf(_, _, _)
DecimalOf(t, i, j) ==
    IF j < i THEN 0 ELSE DecimalOf(t, i, j - 1) * 10 + DigitVal(t[j])

NoNumber == -1

\* extract_number: the first match of \d+(?:[.,]\d+)? as a number of tenths
\* (NoNumber stands for the ValueError).  A sign before the digits is not
\* part of the match.  Fraction digits after the first are dropped.
extract_number(text) ==
    LET t == strip(ReplaceNbsp(text))
        starts == {i \in 1..Len(t) : t[i] \in Digits}
    IN  IF starts = {} THEN NoNumber
        ELSE LET i == CHOOSE k \in starts : \A l \in starts : k <= l
                 j == DigitsEnd(t, i)
                 frac == j + 2 <= Len(t) /\ t[j + 1] \in {".", ","}
                           /\ t[j + 2] \in Digits
             IN  DecimalOf(t, i, j) * 10
                   + (IF frac THEN DigitVal(t[j + 2]) ELSE 0)

is_button_text(text) == strip(text) \in BUTTONS

\* filters.Regex(rf"^{re.escape(label)}$"): re.search on the message text;
\* $ also matches before one trailing newline
RegexMatch(label, text) == text = label \/ text = label \o <<"\n">>

\* filters.COMMAND: the message starts with a bot command
IsCommandText(text) == Len(text) >= 2 /\ text[1] = "/"

\* CommandHandler(name, ...): the command is the text up to the first space
CommandMatch(name, text) ==
    /\ IsCommandText(text)
    /\ Len(text) >= Len(name) + 1
    /\ SubSeq(text, 2, Len(name) + 1) = name
    /\ (Len(text) = Len(name) + 1 \/ text[Len(name) + 2] = " ")

\* filters.TEXT & ~filters.COMMAND
TextNotCommand(text) == text # << >> /\ ~IsCommandText(text)

\* ----------------------------------------------------------------------
\* Calendar (datetime.date)
\* ----------------------------------------------------------------------
IsLeap(y) == (y % 4 = 0 /\ y % 100 # 0) \/ y % 400 = 0

DaysInMonth(y, m) ==
    IF m = 2 THEN (IF IsLeap(y) THEN 29 ELSE 28)
    ELSE IF m \in {4, 6, 9, 11} THEN 30 ELSE 31

NextDate(d) ==
    IF d[3] < DaysInMonth(d[1], d[2]) THEN <<d[1], d[2], d[3] + 1>>
    ELSE IF d[2] < 12 THEN <<d[1], d[2] + 1, 1>>
    ELSE <<d[1] + 1, 1, 1>>

\* the calendar date of day number 0
Epoch == <<2024, 2, 23>>

\* the date n days after Epoch
RECURSIVE DateAfter(_)
DateAfter(n) == IF n = 0 THEN Epoch ELSE NextDate(DateAfter(n - 1))

\* number of days week_total sums (range(7))
WindowDays == 7

\* the dates of the days the model can reach, computed once
Calendar == [n \in 0..(WindowDays + MaxDay) |-> DateAfter(n)]

DateOf(n) == Calendar[n]

NoDate == << >>

AllDigits(t) == \A i \in 1..Len(t) : t[i] \in Digits

ValidDate(y, m, d) ==
    /\ y >= 1
    /\ m >= 1 /\ m <= 12
    /\ d >= 1 /\ d <= DaysInMonth(y, m)

\* date.fromisoformat(txt).isoformat() as of Python 3.11 (main is written
\* for Python 3.13+, src/bot.py 438): the calendar forms YYYY-MM-DD and
\* YYYYMMDD; NoDate stands for the ValueError
fromisoformat(t) ==
    LET u == IF Len(t) = 10 /\ t[5] = "-" /\ t[8] = "-"
             THEN SubSeq(t, 1, 4) \o SubSeq(t, 6, 7) \o SubSeq(t, 9, 10)
             ELSE t
    IN  IF Len(u) = 8 /\ AllDigits(u)
           /\ ValidDate(DecimalOf(u, 1, 4), DecimalOf(u, 5, 6), DecimalOf(u, 7, 8))
        THEN <<DecimalOf(u, 1, 4), DecimalOf(u, 5, 6), DecimalOf(u, 7, 8)>>
        ELSE NoDate

\* ----------------------------------------------------------------------
\* DB (src/bot.py 107-153): the table is a sequence of rows in id order
\* ----------------------------------------------------------------------
NULL == -1

\* the columns of CREATE TABLE entries (src/bot.py 76-87)
Columns == {"id", "user_id", "day", "name", "grams", "kcal100", "kcal", "mode"}

\* the columns db_init_and_migrate adds to an older table (src/bot.py 92-98)
AddedColumns == {"grams", "kcal100", "mode"}

\* a store is the table's columns and rows, and the error of the statement
\* that raised ("none" when none did); a row has one field per column
Store(cols, rows) == [error |-> "none", columns |-> cols, rows |-> rows]

\* CREATE TABLE IF NOT EXISTS entries
CreateTable(store) ==
    IF store.columns = {} THEN [store EXCEPT !.columns = Columns] ELSE store

\* ALTER TABLE entries ADD COLUMN col [DEFAULT value]: every row gets the
\* default; sqlite raises when the table has the column already
AlterAddColumn(store, col, value) ==
    IF store.error # "none" THEN store
    ELSE IF col \in store.columns
    THEN [store EXCEPT !.error = "duplicate column name"]
    ELSE [store EXCEPT
            !.columns = @ \cup {col},
            !.rows = [i \in DOMAIN @ |->
                        [f \in DOMAIN @[i] \cup {col} |->
                            IF f = col THEN value ELSE @[i][f]]]]

\* db_init_and_migrate without the tests on the columns present
db_init_and_migrate_unguarded(cols, rows) ==
    AlterAddColumn(
        AlterAddColumn(
            AlterAddColumn(CreateTable(Store(cols, rows)), "grams", NULL),
            "kcal100", NULL),
        "mode", "grams")

db_init_and_migrate(cols, rows) ==
    LET created == CreateTable(Store(cols, rows))
        had == created.columns
        s1 == IF "grams" \notin had
              THEN AlterAddColumn(created, "grams", NULL) ELSE created
        s2 == IF "kcal100" \notin had
              THEN AlterAddColumn(s1, "kcal100", NULL) ELSE s1
    IN  IF "mode" \notin had THEN AlterAddColumn(s2, "mode", "grams") ELSE s2

add_entry_grams(rows, id, user_id, day, name, grams, kcal100) ==
    Append(rows, [id |-> id, user_id |-> user_id, day |-> day, name |-> name,
                  grams |-> grams, kcal100 |-> kcal100,
                  kcal |-> grams * kcal100, mode |-> "grams"])

add_entry_kcal(rows, id, user_id, day, name, kcal) ==
    Append(rows, [id |-> id, user_id |-> user_id, day |-> day, name |-> name,
                  grams |-> NULL, kcal100 |-> NULL,
                  kcal |-> kcal * 1000, mode |-> "kcal"])

RECURSIVE SumKcal(_)
SumKcal(rows) ==
    IF rows = << >> THEN 0 ELSE Head(rows).kcal + SumKcal(Tail(rows))

\* the WHERE clause with the user left out
Matches_any_user(r, user_id, day) == r.day = day

Matches(r, user_id, day) == r.user_id = user_id /\ r.day = day

\* WHERE user_id=? AND day=?, in id order
Where(rows, user_id, day) ==
    SelectSeq(rows, LAMBDA r : Matches(r, user_id, day))

\* SELECT name, grams, kcal100, kcal, mode
RECURSIVE SelectFields(_)
SelectFields(rows) ==
    IF rows = << >> THEN << >>
    ELSE <<[name |-> Head(rows).name, grams |-> Head(rows).grams,
            kcal100 |-> Head(rows).kcal100, kcal |-> Head(rows).kcal,
            mode |-> Head(rows).mode]>> \o SelectFields(Tail(rows))

get_entries(rows, user_id, day) == SelectFields(Where(rows, user_id, day))

\* get_total with the day left out of the WHERE clause
get_total_any_day(rows, user_id, day) ==
    SumKcal(SelectSeq(rows, LAMBDA r : r.user_id = user_id))

get_total(rows, user_id, day) == SumKcal(Where(rows, user_id, day))

\* clear_day with the day left out of the WHERE clause
clear_day_any_day(rows, user_id, day) ==
    SelectSeq(rows, LAMBDA r : r.user_id # user_id)

clear_day(rows, user_id, day) ==
    SelectSeq(rows, LAMBDA r : ~Matches(r, user_id, day))

\* ----------------------------------------------------------------------
\* Inputs: the message texts users send; a message is named by its place in
\* TextList
\* ----------------------------------------------------------------------
CMD_START == <<"s","t","a","r","t">>
CMD_HELP == <<"h","e","l","p">>
CMD_CANCEL == <<"c","a","n","c","e","l">>
CMD_ADD_GRAMS == <<"a","d","d","_","g","r","a","m","s">>
CMD_ADD_KCAL == <<"a","d","d","_","k","c","a","l">>
CMD_DATE == <<"d","a","t","e">>

Slash(name) == <<"/">> \o name

TXT_TEA == <<"T","e","a">>
TXT_BLANK == <<" ">>
TXT_ZERO == <<"0">>
TXT_MINUS5 == <<"-","5">>
TXT_FEB29 == <<"2","0","2","4","-","0","2","-","2","9">>
TXT_FEB29_BASIC == <<"2","0","2","4","0","2","2","9">>

Commands == {Slash(CMD_START), Slash(CMD_HELP), Slash(CMD_CANCEL),
             Slash(CMD_ADD_KCAL)}

TextList ==
    <<BTN_ADD_GRAMS, BTN_ADD_KCAL, BTN_TODAY_LIST, BTN_TOTAL, BTN_RESET,
      BTN_CANCEL, BTN_YESTERDAY, BTN_WEEK, BTN_PICK_DATE,
      Slash(CMD_START), Slash(CMD_HELP), Slash(CMD_CANCEL), Slash(CMD_ADD_KCAL),
      TXT_TEA, TXT_BLANK, TXT_ZERO, TXT_MINUS5, TXT_FEB29, TXT_FEB29_BASIC>>

Texts == DOMAIN TextList

\* the helpers applied to the message texts, computed once: text.strip(),
\* and extract_number, is_button_text and date.fromisoformat of the result
MessageTexts == {TextList[i] : i \in Texts}

StripTable == [t \in MessageTexts |-> strip(t)]

NumberTable == [t \in {strip(m) : m \in MessageTexts} |-> extract_number(t)]

ButtonTable == [t \in {strip(m) : m \in MessageTexts} |-> is_button_text(t)]

DateTable == [t \in {strip(m) : m \in MessageTexts} |-> fromisoformat(t)]

\* what the database does during one message: every statement succeeds, the
\* INSERT or DELETE raises, or a SELECT raises
ReadOutcomes == {"ok", "read_fails"}
WriteOutcomes == {"ok", "write_fails"}
DbOutcomes == ReadOutcomes \cup WriteOutcomes

\* ----------------------------------------------------------------------
\* State
\* ----------------------------------------------------------------------
VARIABLES
    conv,        \* conv[c][u]: state of ConversationHandler c for user u, or END
    user_data,   \* user_data[u]: context.user_data of user u
    entries,     \* the rows of table entries, in id order
    next_id,     \* the next AUTOINCREMENT id
    today,       \* date.today() as a day number
    last,        \* the last message handled: sender, callback, reply, error,
                 \* and the day number at which the sender had started the
                 \* flow then active (NoDay when none was)
    nmsgs,       \* number of messages handled
    columns,     \* the columns of table entries; {} when there is no table
    app,         \* the process: "starting" (main began), "polling", "failed"
    writer       \* history of user_data[u]: writer[u][f] is the flow whose
                 \* callback stored field f ("none" when the field is absent),
                 \* writer[u].since the day number at which u last started
                 \* a flow (NoDay when no flow of u is active)

vars == <<conv, user_data, entries, next_id, today, last, nmsgs, columns, app,
          writer>>

Convs == {"grams", "kcal", "pick_date"}

\* context.user_data: the keys present and their values
EmptyData == [keys |-> {}, name |-> << >>, grams |-> 0]

\* today_str evaluated once, when the process starts
today_str_at_start == DateOf(WindowDays - 1)

today_str == DateOf(today)

\* f"{x:.1f}" of a kcal value: tenths, rounded half to even
Fmt1(x) ==
    LET q == x \div 1000
        r == x % 1000
    IN  IF r > 500 \/ (r = 500 /\ q % 2 = 1) THEN q + 1 ELSE q

NoTotal == -1

Reply(msg) ==
    [msg |-> msg, name |-> << >>, kcal |-> NoTotal, day |-> NoDate,
     total |-> NoTotal, rows |-> << >>]

\* what a callback does: the state it returns (NoRet when it raises), the
\* user's user_data and the table after it, and its reply
NoRet == -2

Out(ret, data, rows, reply) ==
    [ret |-> ret, data |-> data, rows |-> rows, inserted |-> FALSE,
     reply |-> reply, error |-> "none"]

\* on_error that also drops the sender's user_data
on_error_clears(u, err) ==
    [ret |-> NoRet, data |-> EmptyData, rows |-> entries,
     inserted |-> FALSE, reply |-> Reply("Server error. Check logs."),
     error |-> err]

\* on_error (src/bot.py 429-435): the callback raised; nothing it did is kept
on_error(u, err) ==
    [ret |-> NoRet, data |-> user_data[u], rows |-> entries,
     inserted |-> FALSE, reply |-> Reply("Server error. Check logs."),
     error |-> err]

\* format_day_report raises TypeError on a grams row without grams or kcal100
ReportFails(rows) ==
    \E i \in 1..Len(rows) :
        rows[i].mode = "grams" /\ (rows[i].grams = NULL \/ rows[i].kcal100 = NULL)

format_day_report(day, rows, total) ==
    IF rows = << >>
    THEN [Reply("No entries") EXCEPT !.day = day, !.total = 0]
    ELSE [Reply("Entries") EXCEPT !.day = day, !.rows = rows,
                                  !.total = Fmt1(total)]

\* ----------------------------------------------------------------------
\* Callbacks (src/bot.py 207-423): u is the sender, text the message text,
\* db what the database does
\* ----------------------------------------------------------------------
None == -3

start(u, text) ==
    Out(None, user_data[u], entries, Reply("Calorie bot is ready."))

help_cmd(u, text) ==
    Out(None, user_data[u], entries, Reply("Buttons:"))

cancel(u, text) ==
    Out(END, EmptyData, entries, Reply("Canceled."))

grams_start(u, text) ==
    Out(G_NAME, EmptyData, entries, Reply("Enter product name:"))

grams_name(u, text) ==
    LET name == StripTable[text]
    IN  IF name = << >> \/ ButtonTable[name]
        THEN Out(G_NAME, user_data[u], entries,
                 Reply("Enter product name (text):"))
        ELSE Out(G_GRAMS,
                 [user_data[u] EXCEPT !.keys = @ \cup {"name"}, !.name = name],
                 entries, Reply("Enter grams (e.g. 120):"))

\* grams_grams with the range check grams < 0
grams_grams_zero(u, text) ==
    LET txt == StripTable[text]
        grams == NumberTable[txt]
    IN  IF ButtonTable[txt]
        THEN Out(G_GRAMS, user_data[u], entries,
                 Reply("Enter a number (grams) or press Cancel."))
        ELSE IF grams = NoNumber \/ grams < 0
        THEN Out(G_GRAMS, user_data[u], entries,
                 Reply("Grams must be a number > 0. Example: 120"))
        ELSE Out(G_KCAL100,
                 [user_data[u] EXCEPT !.keys = @ \cup {"grams"}, !.grams = grams],
                 entries, Reply("Enter kcal per 100g (e.g. 89):"))

grams_grams(u, text) ==
    LET txt == StripTable[text]
        grams == NumberTable[txt]
    IN  IF ButtonTable[txt]
        THEN Out(G_GRAMS, user_data[u], entries,
                 Reply("Enter a number (grams) or press Cancel."))
        ELSE IF grams = NoNumber \/ grams <= 0
        THEN Out(G_GRAMS, user_data[u], entries,
                 Reply("Grams must be a number > 0. Example: 120"))
        ELSE Out(G_KCAL100,
                 [user_data[u] EXCEPT !.keys = @ \cup {"grams"}, !.grams = grams],
                 entries, Reply("Enter kcal per 100g (e.g. 89):"))

grams_kcal100(u, text, db) ==
    LET txt == StripTable[text]
        kcal100 == NumberTable[txt]
        day == today_str
        name == user_data[u].name
        grams == user_data[u].grams
        rows == add_entry_grams(entries, next_id, u, day, name, grams, kcal100)
    IN  IF ButtonTable[txt]
        THEN Out(G_KCAL100, user_data[u], entries,
                 Reply("Enter a number (kcal per 100g) or press Cancel."))
        ELSE IF kcal100 = NoNumber \/ kcal100 < 0
        THEN Out(G_KCAL100, user_data[u], entries,
                 Reply("kcal/100g must be a number >= 0. Example: 89"))
        ELSE IF "name" \notin user_data[u].keys \/ "grams" \notin user_data[u].keys
        THEN on_error(u, "KeyError")
        ELSE IF db = "write_fails"
        THEN on_error(u, "insert raised")
        ELSE IF db = "read_fails"
        THEN [on_error(u, "select raised") EXCEPT
                 !.rows = rows, !.inserted = TRUE]
        ELSE [Out(END, user_data[u], rows,
                  [Reply("Added") EXCEPT !.name = name,
                                         !.kcal = Fmt1(grams * kcal100),
                                         !.day = day,
                                         !.total = Fmt1(get_total(rows, u, day))])
                EXCEPT !.inserted = TRUE]

kcal_start(u, text) ==
    Out(K_NAME, EmptyData, entries, Reply("Enter product name:"))

\* kcal_name without the test is_button_text
kcal_name_any(u, text) ==
    LET name == StripTable[text]
    IN  IF name = << >>
        THEN Out(K_NAME, user_data[u], entries,
                 Reply("Enter product name (text):"))
        ELSE Out(K_KCAL,
                 [user_data[u] EXCEPT !.keys = @ \cup {"name"}, !.name = name],
                 entries, Reply("Enter portion kcal (e.g. 250):"))

kcal_name(u, text) ==
    LET name == StripTable[text]
    IN  IF name = << >> \/ ButtonTable[name]
        THEN Out(K_NAME, user_data[u], entries,
                 Reply("Enter product name (text):"))
        ELSE Out(K_KCAL,
                 [user_data[u] EXCEPT !.keys = @ \cup {"name"}, !.name = name],
                 entries, Reply("Enter portion kcal (e.g. 250):"))

kcal_value(u, text, db) ==
    LET txt == StripTable[text]
        kcal == NumberTable[txt]
        day == today_str
        name == user_data[u].name
        rows == add_entry_kcal(entries, next_id, u, day, name, kcal)
    IN  IF ButtonTable[txt]
        THEN Out(K_KCAL, user_data[u], entries,
                 Reply("Enter a number (portion kcal) or press Cancel."))
        ELSE IF kcal = NoNumber \/ kcal < 0
        THEN Out(K_KCAL, user_data[u], entries,
                 Reply("kcal must be a number >= 0. Example: 250"))
        ELSE IF "name" \notin user_data[u].keys
        THEN on_error(u, "KeyError")
        ELSE IF db = "write_fails"
        THEN on_error(u, "insert raised")
        ELSE IF db = "read_fails"
        THEN [on_error(u, "select raised") EXCEPT
                 !.rows = rows, !.inserted = TRUE]
        ELSE [Out(END, user_data[u], rows,
                  [Reply("Added") EXCEPT !.name = name,
                                         !.kcal = Fmt1(kcal * 1000),
                                         !.day = day,
                                         !.total = Fmt1(get_total(rows, u, day))])
                EXCEPT !.inserted = TRUE]

today_list(u, text, db) ==
    LET day == today_str
        rows == get_entries(entries, u, day)
        total == get_total(entries, u, day)
    IN  IF db = "read_fails" THEN on_error(u, "select raised")
        ELSE IF ReportFails(rows) THEN on_error(u, "TypeError")
        ELSE Out(None, user_data[u], entries, format_day_report(day, rows, total))

total_today(u, text, db) ==
    LET day == today_str
    IN  IF db = "read_fails" THEN on_error(u, "select raised")
        ELSE Out(None, user_data[u], entries,
                 [Reply("Today total") EXCEPT
                     !.day = day, !.total = Fmt1(get_total(entries, u, day))])

yesterday_total(u, text, db) ==
    LET day == DateOf(today - 1)
    IN  IF db = "read_fails" THEN on_error(u, "select raised")
        ELSE Out(None, user_data[u], entries,
                 [Reply("Yesterday total") EXCEPT
                     !.day = day, !.total = Fmt1(get_total(entries, u, day))])

\* the loop of week_total: total after the days today, ..., today - (n - 1)
RECURSIVE WeekSum(_, _, _)
WeekSum(rows, u, n) ==
    IF n = 0 THEN 0
    ELSE WeekSum(rows, u, n - 1) + get_total(rows, u, DateOf(today - (n - 1)))

\* week_total with range(6)
week_total_six(u, text, db) ==
    IF db = "read_fails" THEN on_error(u, "select raised")
    ELSE Out(None, user_data[u], entries,
             [Reply("Total for last 7 days") EXCEPT
                 !.total = Fmt1(WeekSum(entries, u, WindowDays - 1))])

week_total(u, text, db) ==
    IF db = "read_fails" THEN on_error(u, "select raised")
    ELSE Out(None, user_data[u], entries,
             [Reply("Total for last 7 days") EXCEPT
                 !.total = Fmt1(WeekSum(entries, u, WindowDays))])

reset_today(u, text, db) ==
    LET day == today_str
    IN  IF db = "write_fails" THEN on_error(u, "delete raised")
        ELSE Out(None, user_data[u], clear_day(entries, u, day),
                 [Reply("Cleared entries for today") EXCEPT !.day = day])

pick_date_start(u, text) ==
    Out(D_DATE, EmptyData, entries, Reply("Enter date in format YYYY-MM-DD:"))

pick_date_value(u, text, db) ==
    LET txt == StripTable[text]
        picked == DateTable[txt]
        rows == get_entries(entries, u, picked)
        total == get_total(entries, u, picked)
    IN  IF ButtonTable[txt]
        THEN Out(D_DATE, user_data[u], entries,
                 Reply("Please enter a date (YYYY-MM-DD) or press Cancel."))
        ELSE IF picked = NoDate
        THEN Out(D_DATE, user_data[u], entries,
                 Reply("Invalid date. Use YYYY-MM-DD (example: 2026-02-23)"))
        ELSE IF db = "read_fails" THEN on_error(u, "select raised")
        ELSE IF ReportFails(rows) THEN on_error(u, "TypeError")
        ELSE Out(END, user_data[u], entries,
                 format_day_report(picked, rows, total))

\* ----------------------------------------------------------------------
\* Dispatch (src/bot.py 449-516): in the actions, text is a message of Texts
\* ----------------------------------------------------------------------
\* entry_points of a ConversationHandler
EntryMatch(c, text) ==
    CASE c = "grams" ->
            CommandMatch(CMD_ADD_GRAMS, text) \/ RegexMatch(BTN_ADD_GRAMS, text)
      [] c = "kcal" ->
            CommandMatch(CMD_ADD_KCAL, text) \/ RegexMatch(BTN_ADD_KCAL, text)
      [] c = "pick_date" ->
            RegexMatch(BTN_PICK_DATE, text) \/ CommandMatch(CMD_DATE, text)

EntryCallback(c) ==
    CASE c = "grams" -> "grams_start"
      [] c = "kcal" -> "kcal_start"
      [] c = "pick_date" -> "pick_date_start"

\* states of the ConversationHandlers: the callback of each state
StateCallback(state) ==
    CASE state = G_NAME -> "grams_name"
      [] state = G_GRAMS -> "grams_grams"
      [] state = G_KCAL100 -> "grams_kcal100"
      [] state = K_NAME -> "kcal_name"
      [] state = K_KCAL -> "kcal_value"
      [] state = D_DATE -> "pick_date_value"

\* fallbacks of a ConversationHandler
FallbackMatch(text) ==
    CommandMatch(CMD_CANCEL, text) \/ RegexMatch(BTN_CANCEL, text)

\* app.add_handler order, all in group 0
HandlerOrder ==
    <<"start", "help_cmd", "cancel", "today_list", "total_today",
      "yesterday_total", "week_total", "reset_today",
      "conv_grams", "conv_kcal", "conv_pick_date">>

\* the filter of each handler added outside the conversations
FilterMatch(h, text) ==
    CASE h = "start" -> CommandMatch(CMD_START, text)
      [] h = "help_cmd" -> CommandMatch(CMD_HELP, text)
      [] h = "cancel" -> RegexMatch(BTN_CANCEL, text)
      [] h = "today_list" -> RegexMatch(BTN_TODAY_LIST, text)
      [] h = "total_today" -> RegexMatch(BTN_TOTAL, text)
      [] h = "yesterday_total" -> RegexMatch(BTN_YESTERDAY, text)
      [] h = "week_total" -> RegexMatch(BTN_WEEK, text)
      [] h = "reset_today" -> RegexMatch(BTN_RESET, text)

\* Application.process_update: the first handler of the group that accepts,
\* here among the handlers added before the conversations
FirstFilter(text) ==
    LET hits == {i \in 1..8 : FilterMatch(HandlerOrder[i], text)}
    IN  IF hits = {} THEN "none"
        ELSE HandlerOrder[CHOOSE i \in hits : \A j \in hits : i <= j]

\* what the filters say of a text (they do not read the state)
FilterRow(text) ==
        [first |-> FirstFilter(text),
         entry |-> [c \in Convs |-> EntryMatch(c, text)],
         plain |-> TextNotCommand(text),
         fallback |-> FallbackMatch(text)]

RECURSIVE Tabulate(_)
Tabulate(n) ==
    IF n = 0 THEN << >> ELSE Append(Tabulate(n - 1), FilterRow(TextList[n]))

\* the filters' verdicts on the texts of TextList
Filters == Tabulate(Len(TextList))

\* the texts whose first accepting handler outside the conversations is h
\* ("none": the texts that reach the conversations)
ByFilter(h) == {text \in Texts : Filters[text].first = h}

\* the texts given to a step that reads a quantity: those without a number
\* or with a number of at most MaxQuantity tenths
Quantities ==
    {text \in ByFilter("none") :
        extract_number(strip(TextList[text])) <= MaxQuantity}

\* the texts given to a step that reads a name: those without a number
Names ==
    {text \in ByFilter("none") :
        extract_number(strip(TextList[text])) = NoNumber}

\* ConversationHandler.check_update with allow_reentry=True: the callback
\* that conversation c runs on this message, "none" when it passes
ConvCheck(c, u, text) ==
    IF Filters[text].entry[c] THEN EntryCallback(c)
    ELSE IF conv[c][u] = END THEN "none"
    ELSE IF Filters[text].plain THEN StateCallback(conv[c][u])
    ELSE IF Filters[text].fallback THEN "fallback_cancel"
    ELSE "none"

\* Application.process_update: the first handler of the group that accepts
Selected(u, text) ==
    IF Filters[text].first # "none" THEN Filters[text].first
    ELSE IF ConvCheck("grams", u, text) # "none" THEN "conv_grams"
    ELSE IF ConvCheck("kcal", u, text) # "none" THEN "conv_kcal"
    ELSE IF ConvCheck("pick_date", u, text) # "none" THEN "conv_pick_date"
    ELSE "none"

\* conversation c was selected and runs callback cb
ConvRuns(c, cb, u, text) ==
    /\ ConvCheck(c, u, text) = cb
    /\ Selected(u, text) = "conv_" \o c

NoReply == Reply("")

\* app.run_polling (src/bot.py 519) hands messages to the handlers; the model
\* handles at most MaxMsgs of them
Open == app = "polling" /\ nmsgs < MaxMsgs

NoDay == -1

NoWriter == [name |-> "none", grams |-> "none", since |-> NoDay]

\* the field callback cb stored when it returned ret, "none" when it stored
\* nothing
Stored(cb, ret) ==
    IF cb = "grams_name" /\ ret = G_GRAMS THEN "name"
    ELSE IF cb = "kcal_name" /\ ret = K_KCAL THEN "name"
    ELSE IF cb = "grams_grams" /\ ret = G_KCAL100 THEN "grams"
    ELSE "none"

\* the history after callback cb of conversation c returned ret and left
\* data, given the history w before; idle: no flow of the user is active
\* after it
WriterAfter(w, cb, c, ret, data, idle) ==
    LET by(f) == IF f \notin data.keys THEN "none"
                 ELSE IF Stored(cb, ret) = f THEN c
                 ELSE w[f]
    IN  [name |-> by("name"), grams |-> by("grams"),
         since |-> IF idle THEN NoDay
                   ELSE IF c \in Convs /\ cb = EntryCallback(c) THEN today
                   ELSE w.since]

\* the effect of one handled message; c is the conversation the callback ran
\* in, "none" for a handler outside the conversations (its return value is
\* dropped)
Apply(u, text, cb, out, c) ==
    LET o == out IN
    /\ o.inserted => next_id <= MaxEntries
    /\ conv' = IF c \in Convs /\ o.error = "none"
               THEN [conv EXCEPT ![c][u] = o.ret]
               ELSE conv
    /\ user_data' = [user_data EXCEPT ![u] = o.data]
    /\ entries' = o.rows
    /\ next_id' = IF o.inserted THEN next_id + 1 ELSE next_id
    /\ last' = [user |-> u, handler |-> cb, reply |-> o.reply,
                error |-> o.error, since |-> writer[u].since]
    /\ nmsgs' = nmsgs + 1
    /\ writer' = [writer EXCEPT ![u] =
                      WriterAfter(@, cb, c, o.ret, o.data,
                                  \A k \in Convs : conv'[k][u] = END)]
    /\ UNCHANGED <<today, columns, app>>

Start(u, text) ==
    /\ Selected(u, text) = "start"
    /\ Apply(u, text, "start", start(u, TextList[text]), "none")

HelpCmd(u, text) ==
    /\ Selected(u, text) = "help_cmd"
    /\ Apply(u, text, "help_cmd", help_cmd(u, TextList[text]), "none")

Cancel(u, text) ==
    /\ Selected(u, text) = "cancel"
    /\ Apply(u, text, "cancel", cancel(u, TextList[text]), "none")

TodayList(u, text, db) ==
    /\ Selected(u, text) = "today_list"
    /\ Apply(u, text, "today_list", today_list(u, TextList[text], db), "none")

TotalToday(u, text, db) ==
    /\ Selected(u, text) = "total_today"
    /\ Apply(u, text, "total_today", total_today(u, TextList[text], db), "none")

YesterdayTotal(u, text, db) ==
    /\ Selected(u, text) = "yesterday_total"
    /\ Apply(u, text, "yesterday_total", yesterday_total(u, TextList[text], db), "none")

WeekTotal(u, text, db) ==
    /\ Selected(u, text) = "week_total"
    /\ Apply(u, text, "week_total", week_total(u, TextList[text], db), "none")

ResetToday(u, text, db) ==
    /\ Selected(u, text) = "reset_today"
    /\ Apply(u, text, "reset_today", reset_today(u, TextList[text], db), "none")

GramsStart(u, text) ==
    /\ ConvRuns("grams", "grams_start", u, text)
    /\ Apply(u, text, "grams_start", grams_start(u, TextList[text]), "grams")

GramsName(u, text) ==
    /\ ConvRuns("grams", "grams_name", u, text)
    /\ Apply(u, text, "grams_name", grams_name(u, TextList[text]), "grams")

GramsGrams(u, text) ==
    /\ ConvRuns("grams", "grams_grams", u, text)
    /\ Apply(u, text, "grams_grams", grams_grams(u, TextList[text]), "grams")

GramsKcal100(u, text, db) ==
    /\ ConvRuns("grams", "grams_kcal100", u, text)
    /\ Apply(u, text, "grams_kcal100", grams_kcal100(u, TextList[text], db), "grams")

KcalStart(u, text) ==
    /\ ConvRuns("kcal", "kcal_start", u, text)
    /\ Apply(u, text, "kcal_start", kcal_start(u, TextList[text]), "kcal")

KcalName(u, text) ==
    /\ ConvRuns("kcal", "kcal_name", u, text)
    /\ Apply(u, text, "kcal_name", kcal_name(u, TextList[text]), "kcal")

KcalValue(u, text, db) ==
    /\ ConvRuns("kcal", "kcal_value", u, text)
    /\ Apply(u, text, "kcal_value", kcal_value(u, TextList[text], db), "kcal")

PickDateStart(u, text) ==
    /\ ConvRuns("pick_date", "pick_date_start", u, text)
    /\ Apply(u, text, "pick_date_start", pick_date_start(u, TextList[text]), "pick_date")

PickDateValue(u, text, db) ==
    /\ ConvRuns("pick_date", "pick_date_value", u, text)
    /\ Apply(u, text, "pick_date_value", pick_date_value(u, TextList[text], db), "pick_date")

\* cancel as the fallback of a conversation
FallbackCancel(u, text) ==
    \E c \in Convs :
        /\ ConvRuns(c, "fallback_cancel", u, text)
        /\ Apply(u, text, "fallback_cancel", cancel(u, TextList[text]), c)

\* no handler accepts the message: nothing runs and nothing is sent
Unhandled(u, text) ==
    /\ Selected(u, text) = "none"
    /\ Apply(u, text, "none", Out(None, user_data[u], entries, NoReply), "none")

\* the calendar date changes
Tick ==
    /\ today < WindowDays - 1 + MaxDay
    /\ today' = today + 1
    /\ UNCHANGED <<conv, user_data, entries, next_id, last, nmsgs, columns,
                   app, writer>>

\* main() up to run_polling (src/bot.py 441-519): the schema is created or
\* migrated; an exception of db_init_and_migrate ends the process
Main ==
    LET store == db_init_and_migrate(columns, entries)
    IN  /\ app = "starting"
        /\ columns' = store.columns
        /\ entries' = store.rows
        /\ app' = IF store.error = "none" THEN "polling" ELSE "failed"
        /\ last' = [user |-> 0, handler |-> "main", reply |-> NoReply,
                    error |-> store.error, since |-> NoDay]
        /\ UNCHANGED <<conv, user_data, next_id, today, nmsgs, writer>>

\* the process ends and main() is run again: the conversations and
\* user_data live in memory only, the table stays in calories.db
Stop ==
    /\ app = "polling"
    /\ app' = "starting"
    /\ conv' = [c \in Convs |-> [u \in Users |-> END]]
    /\ user_data' = [u \in Users |-> EmptyData]
    /\ writer' = [u \in Users |-> NoWriter]
    /\ UNCHANGED <<entries, next_id, today, last, nmsgs, columns>>

\* rows earlier runs of the bot left in calories.db: of user 1 on the day
\* before the first day of the model and WindowDays - 1 days before it, of
\* user 2 on the first day
PriorRows ==
    add_entry_kcal(
        add_entry_grams(
            add_entry_kcal(<< >>, 1, 1, DateOf(WindowDays - 2), TXT_TEA, 50),
            2, 2, DateOf(WindowDays - 1), TXT_TEA, 50, 25),
        3, 1, DateOf(0), TXT_TEA, 70)

Init ==
    /\ conv = [c \in Convs |-> [u \in Users |-> END]]
    /\ user_data = [u \in Users |-> EmptyData]
    /\ entries = PriorRows
    /\ next_id = Len(entries) + 1
    /\ today = WindowDays - 1
    /\ last = [user |-> 0, handler |-> "none", reply |-> NoReply,
               error |-> "none", since |-> NoDay]
    /\ nmsgs = 0
    /\ columns = Columns
    /\ app = "polling"
    /\ writer = [u \in Users |-> NoWriter]

Next ==
    \/ \E u \in Users, text \in ByFilter("start") : Open /\ Start(u, text)
    \/ \E u \in Users, text \in ByFilter("help_cmd") : Open /\ HelpCmd(u, text)
    \/ \E u \in Users, text \in ByFilter("cancel") : Open /\ Cancel(u, text)
    \/ \E u \in Users, text \in ByFilter("today_list"), db \in ReadOutcomes : Open /\ TodayList(u, text, db)
    \/ \E u \in Users, text \in ByFilter("total_today"), db \in ReadOutcomes : Open /\ TotalToday(u, text, db)
    \/ \E u \in Users, text \in ByFilter("yesterday_total"), db \in ReadOutcomes : Open /\ YesterdayTotal(u, text, db)
    \/ \E u \in Users, text \in ByFilter("week_total"), db \in ReadOutcomes : Open /\ WeekTotal(u, text, db)
    \/ \E u \in Users, text \in ByFilter("reset_today"), db \in WriteOutcomes : Open /\ ResetToday(u, text, db)
    \/ \E u \in Users, text \in ByFilter("none") : Open /\ GramsStart(u, text)
    \/ \E u \in Users, text \in Names : Open /\ GramsName(u, text)
    \/ \E u \in Users, text \in Quantities : Open /\ GramsGrams(u, text)
    \/ \E u \in Users, text \in Quantities, db \in DbOutcomes : Open /\ GramsKcal100(u, text, db)
    \/ \E u \in Users, text \in ByFilter("none") : Open /\ KcalStart(u, text)
    \/ \E u \in Users, text \in Names : Open /\ KcalName(u, text)
    \/ \E u \in Users, text \in Quantities, db \in DbOutcomes : Open /\ KcalValue(u, text, db)
    \/ \E u \in Users, text \in ByFilter("none") : Open /\ PickDateStart(u, text)
    \/ \E u \in Users, text \in ByFilter("none"), db \in ReadOutcomes : Open /\ PickDateValue(u, text, db)
    \/ \E u \in Users, text \in ByFilter("none") : Open /\ FallbackCancel(u, text)
    \/ \E u \in Users, text \in ByFilter("none") : Open /\ Unhandled(u, text)
    \/ Tick

Spec == Init /\ [][Next]_vars

\* ----------------------------------------------------------------------
\* Startup: main() finds calories.db absent, written by this version of the
\* bot, or written by an older version whose table lacks some of the
\* columns db_init_and_migrate adds
\* ----------------------------------------------------------------------
\* the rows as a table with columns cols holds them
Project(rows, cols) == [i \in DOMAIN rows |-> [f \in cols |-> rows[i][f]]]

StoresFound ==
    {Store({}, << >>)} \cup
    {Store(Columns \ missing, Project(rows, Columns \ missing)) :
        missing \in SUBSET AddedColumns, rows \in {<< >>, PriorRows}}

InitStartup ==
    /\ \E store \in StoresFound :
          /\ columns = store.columns
          /\ entries = store.rows
          /\ next_id = Len(store.rows) + 1
    /\ app = "starting"
    /\ conv = [c \in Convs |-> [u \in Users |-> END]]
    /\ user_data = [u \in Users |-> EmptyData]
    /\ today = WindowDays - 1
    /\ last = [user |-> 0, handler |-> "none", reply |-> NoReply,
               error |-> "none", since |-> NoDay]
    /\ nmsgs = 0
    /\ writer = [u \in Users |-> NoWriter]

\* startup, and the messages that list a day
NextStartup ==
    \/ Main
    \/ Stop
    \/ \E u \in Users, text \in ByFilter("today_list"), db \in ReadOutcomes : Open /\ TodayList(u, text, db)
    \/ \E u \in Users, text \in ByFilter("none") : Open /\ PickDateStart(u, text)
    \/ \E u \in Users, text \in ByFilter("none"), db \in ReadOutcomes : Open /\ PickDateValue(u, text, db)

StartupSpec == InitStartup /\ [][NextStartup]_vars

\* ----------------------------------------------------------------------
\* One user alone, the database working: up to MaxSoloMsgs messages of the
\* weight and the direct flow
\* ----------------------------------------------------------------------
SoloTexts ==
    {text \in Texts :
        TextList[text] \in {BTN_ADD_GRAMS, BTN_ADD_KCAL, TXT_TEA, TXT_ZERO,
                            TXT_MINUS5}}

OpenSolo == app = "polling" /\ nmsgs < MaxSoloMsgs

NextSolo ==
    \/ \E text \in SoloTexts : OpenSolo /\ GramsStart(1, text)
    \/ \E text \in SoloTexts : OpenSolo /\ GramsName(1, text)
    \/ \E text \in SoloTexts : OpenSolo /\ GramsGrams(1, text)
    \/ \E text \in SoloTexts : OpenSolo /\ GramsKcal100(1, text, "ok")
    \/ \E text \in SoloTexts : OpenSolo /\ KcalStart(1, text)
    \/ \E text \in SoloTexts : OpenSolo /\ KcalName(1, text)
    \/ \E text \in SoloTexts : OpenSolo /\ KcalValue(1, text, "ok")

SoloSpec == Init /\ [][NextSolo]_vars

\* ----------------------------------------------------------------------
\* Vocabulary of the properties
\* ----------------------------------------------------------------------
\* the message of Texts with the given text
T(chars) == CHOOSE text \in Texts : TextList[text] = chars

\* user u sends message text (whatever the database does)
Message(u, text) ==
    \/ Start(u, text) \/ HelpCmd(u, text) \/ Cancel(u, text)
    \/ GramsStart(u, text) \/ GramsName(u, text) \/ GramsGrams(u, text)
    \/ KcalStart(u, text) \/ KcalName(u, text)
    \/ PickDateStart(u, text)
    \/ FallbackCancel(u, text) \/ Unhandled(u, text)
    \/ \E db \in DbOutcomes :
          \/ TodayList(u, text, db) \/ TotalToday(u, text, db)
          \/ YesterdayTotal(u, text, db) \/ WeekTotal(u, text, db)
          \/ ResetToday(u, text, db)
          \/ GramsKcal100(u, text, db) \/ KcalValue(u, text, db)
          \/ PickDateValue(u, text, db)

\* the flows of user u that are in a non-idle state
ActiveFlows(cv, u) == {c \in Convs : cv[c][u] # END}

\* user u is idle: no flow in progress and no collected field left
Idle(cv, ud, u) == ActiveFlows(cv, u) = {} /\ ud[u] = EmptyData

\* C1: when a user sends the Cancel label, the message writes no entry and
\* afterwards the user is idle: no conversation is in a non-idle state for
\* that user and no collected field remains.
C1_CancelReturnsToIdle ==
    [][\A u \in Users :
          Message(u, T(BTN_CANCEL)) =>
              entries' = entries /\ Idle(conv', user_data', u)]_vars

\* the callback of a start label ran for user u in this step
Started(c, u) ==
    nmsgs' # nmsgs /\ last'.user = u /\ last'.handler = EntryCallback(c)

\* C2: each user has at most one flow in a non-idle state, and when a start
\* label starts a flow for a user, that flow is the only one the user has in
\* progress afterwards and the fields collected before are discarded.
C2_OneFlowPerUser ==
    [][\A u \in Users :
          /\ Cardinality(ActiveFlows(conv', u)) <= 1
          /\ \A c \in Convs :
                Started(c, u) =>
                    ActiveFlows(conv', u) = {c} /\ user_data'[u] = EmptyData]_vars

\* the flow states that expect a number
NumericStates == {G_GRAMS, G_KCAL100, K_KCAL}

\* user u has exactly one flow in progress, and it is in state st
InState(u, st) == \E c \in Convs : ActiveFlows(conv, u) = {c} /\ conv[c][u] = st

\* the message left the session of user u as it was and stored nothing
SessionKept(u) ==
    /\ \A c \in Convs : conv'[c][u] = conv[c][u]
    /\ user_data'[u] = user_data[u]
    /\ next_id' = next_id

\* C3: in a flow state that expects a number, a shortcut label other than
\* Cancel leaves the user in the same state with the same collected fields
\* and writes no entry.
C3_LabelKeepsNumericState ==
    [][\A u \in Users, st \in NumericStates, label \in BUTTONS \ {BTN_CANCEL} :
          (InState(u, st) /\ Message(u, T(label))) => SessionKept(u)]_vars

\* the texts that are neither a command nor the Cancel label
NotCancel == {text \in Texts : TextList[text] # BTN_CANCEL /\ Filters[text].plain}

\* every row of the table before the step is still there after it
RowsKept == \A i \in DOMAIN entries : \E j \in DOMAIN entries' : entries'[j] = entries[i]

\* C4: while a user has a flow in progress, every message other than Cancel
\* is handled by the current-state handler of that flow, never by a shortcut
\* action, and removes no entry from the store.
C4_FlowPreemptsShortcuts ==
    [][\A u \in Users, text \in NotCancel :
          (ActiveFlows(conv, u) # {} /\ Message(u, text)) =>
              /\ last'.handler \in {StateCallback(conv[c][u]) : c \in ActiveFlows(conv, u)}
              /\ RowsKept]_vars

\* C5: the message that completes a weight or direct flow appends exactly one
\* entry, and afterwards the user has no active flow and no collected field.
C5_CommitDestroysSession ==
    [][(nmsgs' # nmsgs /\ last'.reply.msg = "Added") =>
          /\ Len(entries') = Len(entries) + 1
          /\ Idle(conv', user_data', last'.user)]_vars

\* the rows written by the dialogues of this run
Written == {i \in DOMAIN entries : entries[i].id > Len(PriorRows)}

EntryInvariant(r) ==
    /\ r.mode \in {"grams", "kcal"}
    /\ r.mode = "grams" =>
          r.grams > 0 /\ r.kcal100 >= 0 /\ r.kcal = r.grams * r.kcal100
    /\ r.mode = "kcal" =>
          r.grams = NULL /\ r.kcal100 = NULL /\ r.kcal >= 0
    /\ r.name # << >> /\ strip(r.name) = r.name

\* C6: every entry written through the dialogues satisfies the Entry
\* invariant: weight mode has grams > 0, energy_per_100 >= 0 and
\* energy = grams * energy_per_100 / 100; direct mode has no weight fields
\* and energy >= 0; the name is trimmed and not empty.
C6_EntryInvariant == \A i \in Written : EntryInvariant(entries[i])

C6_Witness ==
    \E i \in Written : entries[i].mode = "grams" /\ entries[i].kcal > 0

\* the calendar dates of the model
Days == {DateOf(n) : n \in 0..(WindowDays + MaxDay)}

\* this step appended one row to the table
Recorded == Len(entries') = Len(entries) + 1

\* C7 (stated of every step that changes the table): the total of a (user,
\* day) pair without entries is 0, and recording an
\* entry raises the total of its own (user, day) pair by exactly its energy
\* and leaves the total of every other pair unchanged.
C7_TotalFollowsEntries ==
    [][entries' # entries => \A u \in Users, d \in Days :
          /\ (\A i \in DOMAIN entries' :
                 entries'[i].user_id # u \/ entries'[i].day # d)
                => get_total(entries', u, d) = 0
          /\ Recorded =>
                LET r == entries'[Len(entries')]
                IN  get_total(entries', u, d) =
                        get_total(entries, u, d)
                          + (IF r.user_id = u /\ r.day = d THEN r.kcal ELSE 0)]_vars

C7_Witness ==
    \E i, j \in DOMAIN entries :
        /\ i < j /\ j \in Written
        /\ entries[i].user_id = entries[j].user_id
        /\ entries[i].day = entries[j].day
        /\ entries[j].kcal > 0

\* the Reset shortcut ran for user u in this step and did not raise
ResetDone(u) ==
    /\ nmsgs' # nmsgs /\ last'.user = u
    /\ last'.handler = "reset_today" /\ last'.error = "none"

\* the rows of a table as a set
RowSet(rows) == {rows[i] : i \in DOMAIN rows}

\* C8: Reset removes exactly the sender's entries of today and leaves every
\* other entry unchanged and in order; afterwards the list of that day is
\* empty and its total 0, and clearing the day again changes nothing.
C8_ClearDayExact ==
    [][\A u \in Users :
          ResetDone(u) =>
              /\ RowSet(entries') =
                    {r \in RowSet(entries) : r.user_id # u \/ r.day # today_str}
              /\ \A i, j \in DOMAIN entries' :
                    i < j => entries'[i].id < entries'[j].id
              /\ get_entries(entries', u, today_str) = << >>
              /\ get_total(entries', u, today_str) = 0
              /\ clear_day(entries', u, today_str) = entries']_vars

C8_Witness ==
    /\ last.handler = "reset_today" /\ last.error = "none"
    /\ Len(entries) = Len(PriorRows) - 1 /\ next_id = Len(PriorRows) + 1

\* the texts that hold no number, and the texts of a value out of range
TextsWithoutNumber == {T(TXT_TEA), T(TXT_BLANK)}
TextsNegative == {T(TXT_MINUS5)}
TextsZero == {T(TXT_ZERO)}

\* C9: a message that fails validation leaves the session as it was and
\* writes nothing: no number, a weight that is zero or negative, a density
\* or energy that is negative, a name that is empty after trimming.
C9_InvalidInputKeepsSession ==
    [][\A u \in Users :
          /\ \A text \in TextsWithoutNumber \cup TextsNegative \cup TextsZero :
                (InState(u, G_GRAMS) /\ Message(u, text)) => SessionKept(u)
          /\ \A text \in TextsWithoutNumber \cup TextsNegative :
                ((InState(u, G_KCAL100) \/ InState(u, K_KCAL)) /\ Message(u, text))
                    => SessionKept(u)
          /\ ((InState(u, G_NAME) \/ InState(u, K_NAME)) /\ Message(u, T(TXT_BLANK)))
                => SessionKept(u)]_vars

\* the INSERT of a commit raised in this step
WriteFailed == nmsgs' # nmsgs /\ last'.error = "insert raised"

\* the texts a numeric field accepts when 0 is in its range
NumberTexts ==
    {text \in Quantities : /\ ~is_button_text(strip(TextList[text]))
                           /\ extract_number(strip(TextList[text])) # NoNumber}

\* sent by user u while the database works, text commits an entry in the
\* flow whose callback is cb and ends that flow
Completes(u, cb, text) ==
    LET out == IF cb = "grams_kcal100"
               THEN grams_kcal100(u, TextList[text], "ok")
               ELSE kcal_value(u, TextList[text], "ok")
    IN  /\ ConvCheck(IF cb = "grams_kcal100" THEN "grams" ELSE "kcal", u, text) = cb
        /\ out.inserted /\ out.ret = END /\ out.error = "none"

\* C10: when the store write of a commit fails, no entry is stored, the
\* session is preserved (same flow state, same name and grams), the sender
\* gets the generic failure reply, and sending the last field again while the
\* store works completes the entry.
C10_WriteFailureKeepsSession ==
    /\ [][WriteFailed =>
            /\ UNCHANGED <<conv, user_data, entries, next_id>>
            /\ last'.reply.msg = "Server error. Check logs."]_vars
    /\ [](last.error = "insert raised" =>
            \A text \in NumberTexts : Completes(last.user, last.handler, text))

C10_Witness ==
    /\ last.error = "insert raised"
    /\ last.handler = "grams_kcal100"
    /\ conv["grams"][last.user] = G_KCAL100
    /\ {"name", "grams"} \subseteq user_data[last.user].keys

\* ----------------------------------------------------------------------
\* C11: every inbound text message produces a reply; in particular a text
\* that no handler takes (the sender has no active flow and the text is
\* neither Cancel nor a shortcut nor a start label nor a command the bot
\* knows) is answered and never silently dropped.
\* ----------------------------------------------------------------------
C11_EveryMessageReplied == nmsgs > 0 => last.reply # NoReply

\* ----------------------------------------------------------------------
\* C12: startup migration is idempotent and loses nothing: from an empty
\* store, a current store or an older store lacking any of the columns
\* grams, kcal100, mode, db_init_and_migrate does not fail, leaves the table
\* with all its columns, keeps every row with its id, user, day, name and
\* kcal (and every other value it had), gives the rows of a table without
\* mode the mode "grams", and a second run changes nothing.
\* ----------------------------------------------------------------------
\* this step is a run of db_init_and_migrate
Migrated == app = "starting" /\ app' # "starting"

KeptColumns == {"id", "user_id", "day", "name", "kcal"}

C12_MigrationKeepsRows ==
    [][Migrated =>
        /\ app' = "polling"
        /\ columns' = Columns
        /\ Len(entries') = Len(entries)
        /\ \A i \in DOMAIN entries :
              /\ KeptColumns \subseteq DOMAIN entries[i]
              /\ DOMAIN entries'[i] = Columns
              /\ \A f \in DOMAIN entries[i] : entries'[i][f] = entries[i][f]
              /\ "mode" \notin DOMAIN entries[i] => entries'[i].mode = "grams"
        /\ db_init_and_migrate(columns', entries') = Store(columns', entries')
      ]_vars

\* main() has run a second time on a store that held rows without grams
C12_Witness ==
    /\ app = "polling" /\ last.handler = "main" /\ nmsgs > 0
    /\ \E i \in DOMAIN entries :
          entries[i].mode = "grams" /\ entries[i].grams = NULL

\* ----------------------------------------------------------------------
\* C13: after startup every row of the table, migrated rows included, has
\* grams and kcal100 when its mode is "grams", so listing a day that holds
\* migrated rows (Today list, Choose date) gives a report, not an error.
\* ----------------------------------------------------------------------
C13_MigratedRowsListable ==
    /\ app = "polling" =>
          \A i \in DOMAIN entries :
              entries[i].mode = "grams" =>
                  entries[i].grams # NULL /\ entries[i].kcal100 # NULL
    /\ last.handler \in {"today_list", "pick_date_value"} =>
          last.error # "TypeError"

\* ----------------------------------------------------------------------
\* C14: users are independent: handling a message of user a leaves the flow
\* states, the collected fields and the entries of every other user b
\* unchanged, and what a is told (the rows listed, the totals) is computed
\* from a's own entries alone, so it is what a would be told had the others
\* sent nothing.
\* ----------------------------------------------------------------------
\* the entries of user u
Own(rows, u) == SelectSeq(rows, LAMBDA r : r.user_id = u)

\* a message of user a is handled in this step
Handled(a) == nmsgs' # nmsgs /\ last'.user = a

C14_UsersIndependent ==
    [][\A a \in Users : Handled(a) =>
        /\ \A b \in Users \ {a} :
              /\ \A c \in Convs : conv'[c][b] = conv[c][b]
              /\ user_data'[b] = user_data[b]
              /\ Own(entries', b) = Own(entries, b)
        /\ LET mine == Own(entries', a)
               reply == last'.reply
           IN  /\ reply.msg \in {"Entries", "No entries"} =>
                     /\ reply.rows = get_entries(mine, a, reply.day)
                     /\ reply.total =
                           IF reply.rows = << >> THEN 0
                           ELSE Fmt1(get_total(mine, a, reply.day))
               /\ reply.msg \in {"Added", "Today total", "Yesterday total"} =>
                     reply.total = Fmt1(get_total(mine, a, reply.day))
               /\ reply.msg = "Total for last 7 days" =>
                     reply.total = Fmt1(WeekSum(mine, a, WindowDays))
      ]_vars

\* user 1 has reset today while user 2, who has an entry today, is in the
\* weight flow with a name collected
C14_Witness ==
    /\ last.user = 1 /\ last.handler = "reset_today" /\ last.error = "none"
    /\ conv["grams"][2] = G_GRAMS /\ "name" \in user_data[2].keys
    /\ Where(entries, 2, today_str) # << >>

\* ----------------------------------------------------------------------
\* C15: the Last 7 days total is the sum of the sender's entries dated
\* today, today - 1, ..., today - 6, for the one value of today the request
\* reads: a day without entries adds 0, and entries dated today - 7 or
\* earlier, or of another user, add nothing.
\* ----------------------------------------------------------------------
\* the dates today, today - 1, ..., today - 6
Window == {DateOf(today - k) : k \in 0..6}

C15_WeekTotalIsSevenDays ==
    [][(nmsgs' # nmsgs /\ last'.handler = "week_total"
                       /\ last'.error = "none") =>
        last'.reply.total =
            Fmt1(SumKcal(SelectSeq(entries,
                    LAMBDA r : r.user_id = last'.user /\ r.day \in Window)))
      ]_vars

\* user 1 asked after the date changed: the entry dated today - 7 is left out
C15_Witness ==
    /\ last.handler = "week_total" /\ last.error = "none" /\ last.user = 1
    /\ today >= WindowDays
    /\ \E i \in DOMAIN entries :
          entries[i].user_id = 1 /\ entries[i].day = DateOf(today - WindowDays)
    /\ last.reply.total > 0
    /\ last.reply.total < Fmt1(SumKcal(Own(entries, 1)))

\* ----------------------------------------------------------------------
\* C16: an entry written by the weight or the direct flow is dated with the
\* calendar date at the moment its last field is committed, not the date at
\* which the flow was started, and the day total of the confirmation is the
\* total of that same date.
\* ----------------------------------------------------------------------
C16_EntryDatedAtCommit ==
    [][Recorded =>
        LET r == entries'[Len(entries')]
        IN  /\ r.day = DateOf(today)
            /\ last'.reply.msg = "Added" =>
                  /\ last'.reply.day = DateOf(today)
                  /\ last'.reply.total =
                        Fmt1(get_total(entries', r.user_id, DateOf(today)))
      ]_vars

\* an entry was committed in a flow started on an earlier day
C16_Witness ==
    /\ last.reply.msg = "Added"
    /\ last.since # NoDay /\ last.since < today
    /\ entries[Len(entries)].day = DateOf(today)

\* ----------------------------------------------------------------------
\* C17: in the date-pick flow a message that is not a valid YYYY-MM-DD
\* calendar date keeps the user in D_DATE; a valid date ends the flow and
\* reports the sender's entries and total for exactly that date, total 0
\* when the date has no entries; no step of the date-pick flow and none of
\* the list, total, yesterday and last-7-days shortcuts changes the table.
\* ----------------------------------------------------------------------
\* t is a calendar date written YYYY-MM-DD
StrictDate(t) ==
    /\ Len(t) = 10 /\ t[5] = "-" /\ t[8] = "-"
    /\ AllDigits(SubSeq(t, 1, 4) \o SubSeq(t, 6, 7) \o SubSeq(t, 9, 10))
    /\ ValidDate(DecimalOf(t, 1, 4), DecimalOf(t, 6, 7), DecimalOf(t, 9, 10))

ReadOnlyCallbacks ==
    {"today_list", "total_today", "yesterday_total", "week_total",
     "pick_date_start", "pick_date_value"}

C17_DatePickStrict ==
    [][/\ (nmsgs' # nmsgs /\ last'.handler \in ReadOnlyCallbacks) =>
              entries' = entries
       /\ \A u \in Users, text \in ByFilter("none") :
             (PickDateValue(u, text, "ok") /\ conv["pick_date"][u] = D_DATE) =>
                LET t == strip(TextList[text])
                    d == <<DecimalOf(t, 1, 4), DecimalOf(t, 6, 7),
                           DecimalOf(t, 9, 10)>>
                IN  IF StrictDate(t)
                    THEN /\ conv'["pick_date"][u] = END
                         /\ last'.reply.day = d
                         /\ last'.reply.rows = get_entries(entries, u, d)
                         /\ last'.reply.total =
                               IF last'.reply.rows = << >> THEN 0
                               ELSE Fmt1(get_total(entries, u, d))
                    ELSE conv'["pick_date"][u] = D_DATE
      ]_vars

\* ----------------------------------------------------------------------
\* C18: when a flow callback that reads collected fields runs, the fields
\* are in the user's session: a user in G_GRAMS, G_KCAL100 or K_KCAL has a
\* stored name and a user in G_KCAL100 has stored grams, after any sequence
\* of messages, so committing the last field never fails on a missing
\* field.
\* ----------------------------------------------------------------------
C18_FieldsPresent ==
    /\ \A u \in Users :
          /\ conv["grams"][u] \in {G_GRAMS, G_KCAL100} =>
                "name" \in user_data[u].keys
          /\ conv["grams"][u] = G_KCAL100 => "grams" \in user_data[u].keys
          /\ conv["kcal"][u] = K_KCAL => "name" \in user_data[u].keys
    /\ last.error # "KeyError"

\* ----------------------------------------------------------------------
\* C19: every stored entry is the product of one completed session of one
\* flow: the name (and, in the weight flow, the grams) of the entry a commit
\* writes is the value the name (grams) callback of that same flow stored
\* since the flow was last started; a field collected by another flow or by
\* an earlier session is never used.  (Every start clears user_data, so a
\* field present was stored after the last start of any flow.)
\* ----------------------------------------------------------------------
C19_EntryFromOneSession ==
    [][Recorded =>
        LET u == last'.user
        IN  /\ last'.handler = "grams_kcal100" =>
                  writer[u].name = "grams" /\ writer[u].grams = "grams"
            /\ last'.handler = "kcal_value" => writer[u].name = "kcal"
      ]_vars

\* ----------------------------------------------------------------------
\* C20: in every reachable state no stored entry has a name equal to a
\* reserved label: whatever messages are sent, a button press is never
\* recorded as an entry's name.
\* ----------------------------------------------------------------------
C20_NoLabelAsName ==
    \A i \in DOMAIN entries : entries[i].name \notin BUTTONS

\* the direct flow has just written an entry under the name it was given
C20_Witness ==
    /\ last.handler = "kcal_value" /\ last.reply.msg = "Added"
    /\ entries[Len(entries)].name = TXT_TEA
    /\ writer[last.user].name = "kcal"

====
